---- MODULE Spec2Model ----
(***************************************************************************)
(* Model of the adaptive mesh (src/adaptive_mesh.py) and of the            *)
(* transmission driver (src/transmission.py).                              *)
(*                                                                         *)
(* Conventions.                                                            *)
(*  - Coordinates are exact integers on a lattice: the unit of length is   *)
(*    1/Scale of the side of the initial square, so that every centroid    *)
(*    and every resampled edge point the model visits is a lattice point.  *)
(*  - Areas are kept in half units: get_area_in_domain returns the value   *)
(*    the code returns multiplied by two (the code's factor 0.5 is the     *)
(*    only non-integer of the formula); Athresh is in the same unit.       *)
(*  - Point indices stored in simplices are 1-based (TLA+ sequences);      *)
(*    positions inside a triangle, on a resampled edge and inside argmin / *)
(*    argmax results are 0-based as in numpy.                              *)
(*  - np.nan is the value NaN below, with numpy's arithmetic: every        *)
(*    operation on NaN gives NaN and every comparison with NaN is false.   *)
(***************************************************************************)
EXTENDS Integers, Sequences, FiniteSets, TLC

\* ------------------------------------------------------------------ bounds
\* largest nDivide a refinement call is given (the driver passes NDivide)
NDivide == 4
\* number of nested resamplings the lattice resolves exactly
Depth == 2
\* a refinement call is issued only while the mesh has at most this many points
MaxPoints == 8
\* largest number of triangles an is_large / is_broken predicate marks
MaxMarked == 2
\* number of refinement calls made on one mesh (a refine_large_triangles call
\* that raises the state error is not counted)
MaxCalls == 2
\* number of raytrace parameters of the driver
NParams == 2

RECURSIVE Pow(_, _)
Pow(b, e) == IF e = 0 THEN 1 ELSE b * Pow(b, e - 1)

\* side of the initial square in lattice units
Scale == 3 * Pow(NDivide - 1, Depth)
\* image-space jump of the discontinuous mappings
Shift == 10 * Scale

\* ------------------------------------------------------- numpy arithmetic
NaN == -999999
None == -888888

IsNaN(a) == a = NaN
Sub(a, b) == IF IsNaN(a) \/ IsNaN(b) THEN NaN ELSE a - b
Add(a, b) == IF IsNaN(a) \/ IsNaN(b) THEN NaN ELSE a + b
Mul(a, b) == IF IsNaN(a) \/ IsNaN(b) THEN NaN ELSE a * b
Sq(a) == Mul(a, a)
Lt(a, b) == ~IsNaN(a) /\ ~IsNaN(b) /\ a < b
Abs(a) == IF a < 0 THEN -a ELSE a

Range(s) == {s[i] : i \in DOMAIN s}

RECURSIVE SumSeq(_)
SumSeq(s) == IF Len(s) = 0 THEN 0 ELSE Head(s) + SumSeq(Tail(s))

\* number of TRUE entries of a boolean mask (np.sum of a mask)
Count(mask) == Cardinality({i \in DOMAIN mask : mask[i]})

\* the k-th (1-based) member of a finite set of integers, in increasing order
Kth(S, k) == CHOOSE i \in S : Cardinality({j \in S : j < i}) = k - 1

\* a[mask]: the rows of a selected by a boolean mask, in order
MaskSelect(a, mask) ==
  LET idx == {i \in DOMAIN a : mask[i]}
  IN [k \in 1..Cardinality(idx) |-> a[Kth(idx, k)]]

\* np.max of a sequence of numbers: NaN if any entry is NaN
NpMax(s) ==
  IF \E i \in DOMAIN s : IsNaN(s[i]) THEN NaN
  ELSE CHOOSE v \in Range(s) : \A w \in Range(s) : w <= v

\* np.argmin (0-based): the first NaN if there is one, else the first minimum
NpArgMin(s) ==
  IF \E i \in DOMAIN s : IsNaN(s[i])
  THEN (CHOOSE i \in DOMAIN s : IsNaN(s[i]) /\ \A j \in 1..(i-1) : ~IsNaN(s[j])) - 1
  ELSE (CHOOSE i \in DOMAIN s : (\A j \in DOMAIN s : s[i] <= s[j])
                                /\ (\A j \in 1..(i-1) : s[j] > s[i])) - 1

\* np.argmax (0-based): the first NaN if there is one, else the first maximum
NpArgMax(s) ==
  IF \E i \in DOMAIN s : IsNaN(s[i])
  THEN (CHOOSE i \in DOMAIN s : IsNaN(s[i]) /\ \A j \in 1..(i-1) : ~IsNaN(s[j])) - 1
  ELSE (CHOOSE i \in DOMAIN s : (\A j \in DOMAIN s : s[i] >= s[j])
                                /\ (\A j \in 1..(i-1) : s[j] < s[i])) - 1

\* the k-th smallest entry (1-based) of a NaN-free sequence
KthSmallest(s, k) ==
  CHOOSE v \in Range(s) :
    /\ Cardinality({i \in DOMAIN s : s[i] < v}) < k
    /\ k <= Cardinality({i \in DOMAIN s : s[i] <= v})

\* twice np.nanmedian: the NaN entries are left out
Median2_IgnoreNaN(s) ==
  LET t == MaskSelect(s, [i \in DOMAIN s |-> ~IsNaN(s[i])])
  IN IF Len(t) = 0 THEN NaN
     ELSE IF Len(t) % 2 = 1 THEN 2 * KthSmallest(t, (Len(t) + 1) \div 2)
     ELSE KthSmallest(t, Len(t) \div 2) + KthSmallest(t, Len(t) \div 2 + 1)

\* twice np.median: NaN for an empty input or an input with a NaN, else the
\* middle entry (odd length) or the mean of the two middle entries, times two
Median2(s) ==
  IF Len(s) = 0 \/ (\E i \in DOMAIN s : IsNaN(s[i])) THEN NaN
  ELSE IF Len(s) % 2 = 1 THEN 2 * KthSmallest(s, (Len(s) + 1) \div 2)
  ELSE KthSmallest(s, Len(s) \div 2) + KthSmallest(s, Len(s) \div 2 + 1)

\* squared distance of two points (x, y), NaN if a coordinate is NaN
LenSq(P, Q) == Add(Sq(Sub(Q[1], P[1])), Sq(Sub(Q[2], P[2])))

\* np.any(np.isnan(point)): the point has a NaN coordinate
InvalidPoint(P) == IsNaN(P[1]) \/ IsNaN(P[2])

\* ------------------------------------------------------------- the mapping
\* A raytrace parameter selects the mapping: the image of a domain point is
\* undefined inside the region nan (lo < form(q) <= hi), shifted by (Shift, 0)
\* inside the region cut, and the point itself elsewhere.
Form(k, q) == CASE k = 1 -> q[1]
                [] k = 2 -> q[2]
                [] OTHER -> q[1] + q[2]

NoRegion == 4 * Scale

Region(form, lo, hi) == [form |-> form, lo |-> lo, hi |-> hi]
Nowhere == Region(1, NoRegion, NoRegion)

\* the raytrace parameters of the model: smooth, cut by a discontinuity, with
\* an undefined half plane, band or corner, undefined everywhere, and both
Parameters ==
  {[cut |-> Nowhere, nan |-> Nowhere],
   [cut |-> Region(1, Scale \div 2 + 1, NoRegion), nan |-> Nowhere],
   [cut |-> Region(3, Scale + 1, NoRegion), nan |-> Nowhere],
   [cut |-> Nowhere, nan |-> Region(1, Scale \div 2 + 1, NoRegion)],
   [cut |-> Nowhere, nan |-> Region(3, Scale + 1, NoRegion)],
   [cut |-> Nowhere, nan |-> Region(3, 1, NoRegion)],
   [cut |-> Nowhere, nan |-> Region(1, 1, Scale - 1)],
   [cut |-> Nowhere, nan |-> Region(1, -1, NoRegion)],
   [cut |-> Region(2, Scale \div 2 + 1, NoRegion), nan |-> Region(1, Scale \div 2 + 1, NoRegion)]}

InRegion(r, q) == Form(r.form, q) > r.lo /\ Form(r.form, q) <= r.hi

raytrace(p, q) ==
  IF InRegion(p.nan, q) THEN <<NaN, NaN>>
  ELSE IF InRegion(p.cut, q) THEN <<q[1] + Shift, q[2]>>
  ELSE q

\* mapping(points): one image row per domain row
MapPoints(p, pts) == [i \in DOMAIN pts |-> raytrace(p, pts[i])]


\* ---------------------------------------------------------------- the mesh
VARIABLES
  domain,               \* self.domain: sequence of domain points
  image,                \* self.image: sequence of image points
  simplices,            \* self.simplices: sequence of index triples
  tri,                  \* self.__tri: the incremental Delaunay structure or None
  initial_domain_area,  \* self.initial_domain_area (half units)
  mapping,              \* self.mapping: the raytrace parameter bound by the closure
  ret,                  \* the last finished call: its name, outcome and final locals
  ncalls,               \* number of refinement calls made on the mesh so far
  transmission,         \* the Transmission object and the arguments of total_transmission
  pc,                   \* position of total_transmission
  ip,                   \* index of the parameter being processed (0-based)
  nNew,                 \* result of the last refinement pass
  broken,               \* the mask computed after the loop
  idet,                 \* index of the next detector to update (0-based)
  adds                  \* the calls of Detector.add made so far, in order

meshVars == <<domain, image, simplices, tri, initial_domain_area, mapping>>
driverVars == <<transmission, pc, ip, nNew, broken, idet, adds>>
vars == <<domain, image, simplices, tri, initial_domain_area, mapping, ret, ncalls,
          transmission, pc, ip, nNew, broken, idet, adds>>

\* the object as a record, for the methods below
Self == [domain |-> domain, image |-> image, simplices |-> simplices, tri |-> tri,
         initial_domain_area |-> initial_domain_area, mapping |-> mapping]

\* self.__tri = None
NoTri == [alive |-> FALSE, simplices |-> <<>>]

\* 1e-10 = 1 / (TolInvSqrt * TolInvSqrt)
TolInvSqrt == 100000

\* abs(x / ref) < 1e-10 as numpy evaluates it: false when ref is 0 (x/0 is inf
\* or nan); for integers |x| * 1e10 < |ref| iff |x| <= (|ref| - 1) div 1e10
RelBelowTol(x, ref) ==
  /\ ref # 0
  /\ Abs(x) <= ((Abs(ref) - 1) \div TolInvSqrt) \div TolInvSqrt

\* np.vstack((a, b)): the rows of b after the rows of a
vstack_Prepend(a, b) == b \o a
vstack(a, b) == a \o b

\* signed area of one triangle of points P0, P1, P2 (half units: the code's
\* 0.5 * (...) times two)
Area2(P0, P1, P2) ==
  (P1[1] - P0[1]) * (P2[2] - P0[2]) - (P2[1] - P0[1]) * (P1[2] - P0[2])

get_area_in_domain(dom, simps) ==
  [k \in DOMAIN simps |-> Area2(dom[simps[k][1]], dom[simps[k][2]], dom[simps[k][3]])]

\* np.sum(np.abs(get_area_in_domain(simps)))
SumAbsArea(dom, simps) ==
  LET a == get_area_in_domain(dom, simps)
  IN SumSeq([k \in DOMAIN a |-> Abs(a[k])])

\* max over the two differences np.diff takes along the vertex axis:
\* |v1 - v0|^2 and |v2 - v1|^2
max_lensq(img, simps) ==
  [k \in DOMAIN simps |->
     NpMax(<<LenSq(img[simps[k][1]], img[simps[k][2]]),
             LenSq(img[simps[k][2]], img[simps[k][3]])>>)]

\* twice lthresh**2: of the given lthresh, or of the default 3*sqrt(median)
LthreshSq2(lthresh, lensq) ==
  IF lthresh = None THEN Mul(9, Median2(lensq))
  ELSE IF IsNaN(lthresh) THEN NaN
  ELSE 2 * lthresh * lthresh

\* return max_lensq >= lthresh**2
BrokenFromLensq_Ge(lensq, thr2) ==
  [k \in DOMAIN lensq |->
     ~IsNaN(lensq[k]) /\ ~IsNaN(thr2) /\ 2 * lensq[k] >= thr2]

\* bValid = max_lensq < lthresh**2; return ~bValid
BrokenFromLensq(lensq, thr2) ==
  [k \in DOMAIN lensq |-> ~Lt(Mul(2, lensq[k]), thr2)]

get_broken_triangles(img, simps, lthresh) ==
  LET lensq == max_lensq(img, simps)
  IN BrokenFromLensq(lensq, LthreshSq2(lthresh, lensq))

\* broken[broken] = vals: the TRUE entries of mask are overwritten, in order
MaskAssign(mask, vals) ==
  LET idx == {i \in DOMAIN mask : mask[i]}
  IN [i \in DOMAIN mask |->
        IF mask[i] THEN vals[Cardinality({j \in idx : j <= i})] ELSE FALSE]

\* np.linspace(0,1,nDivide)[k] along P -> Q: (1-x)*P + x*Q with x = k/(nDivide-1)
Lerp(P, Q, k, nDivide) ==
  <<((nDivide - 1 - k) * P[1] + k * Q[1]) \div (nDivide - 1),
    ((nDivide - 1 - k) * P[2] + k * Q[2]) \div (nDivide - 1)>>

\* the resampled points of P -> Q are lattice points
OnLattice(P, Q, nDivide) ==
  /\ (Q[1] - P[1]) % (nDivide - 1) = 0
  /\ (Q[2] - P[2]) % (nDivide - 1) = 0

\* __resample_edges_of_triangle: C, A, B per triangle (t = 1..nTriangles) and the
\* samples [iPoint, iSide, iTriangle] on C->A (iSide 0) and C->B (iSide 1)
resample_edges_of_triangle(self, simps, indC, nDivide) ==
  LET nTriangles == Len(simps)
      C == [t \in 1..nTriangles |-> simps[t][(indC[t] % 3) + 1]]
      A == [t \in 1..nTriangles |-> simps[t][((indC[t] + 1) % 3) + 1]]
      B == [t \in 1..nTriangles |-> simps[t][((indC[t] - 1) % 3) + 1]]
      dp == [k \in 0..(nDivide-1), e \in 0..1, t \in 1..nTriangles |->
               Lerp(self.domain[C[t]],
                    IF e = 0 THEN self.domain[A[t]] ELSE self.domain[B[t]],
                    k, nDivide)]
  IN [A |-> A, B |-> B, C |-> C,
      domain_points |-> dp,
      image_points |-> [x \in DOMAIN dp |-> raytrace(self.mapping, dp[x])]]

\* every edge the call resamples has its samples on the lattice
Resamplable(self, simps, indC, nDivide) ==
  \A t \in 1..Len(simps) :
    /\ OnLattice(self.domain[simps[t][(indC[t] % 3) + 1]],
                 self.domain[simps[t][((indC[t] + 1) % 3) + 1]], nDivide)
    /\ OnLattice(self.domain[simps[t][(indC[t] % 3) + 1]],
                 self.domain[simps[t][((indC[t] - 1) % 3) + 1]], nDivide)

\* outcome of a call
Outcome(op, kind, value, mask, new) ==
  [op |-> op, kind |-> kind, value |-> value, mask |-> mask, new |-> new, arg |-> None]

\* the merge of __add_new_simplices with the replaced triangles left in place
add_new_simplices_NoRemoval(self, new_simplices, bReplace) ==
  [self |-> [self EXCEPT !.tri = NoTri, !.simplices = self.simplices \o new_simplices],
   kind |-> "ok", value |-> Len(new_simplices)]

\* the merge of __add_new_simplices without the degenerate filter and assertion
add_new_simplices_NoFilter(self, new_simplices, bReplace) ==
  [self |-> [self EXCEPT !.tri = NoTri,
                         !.simplices =
                            MaskSelect(self.simplices,
                                       [i \in DOMAIN bReplace |-> ~bReplace[i]])
                            \o new_simplices],
   kind |-> "ok", value |-> Len(new_simplices)]

\* __add_new_simplices with self.__tri left as it is
add_new_simplices_KeepTri(self, new_simplices, bReplace) ==
  LET area == get_area_in_domain(self.domain, new_simplices)
      kept == MaskSelect(new_simplices,
                         [k \in DOMAIN area |->
                            ~RelBelowTol(area[k], self.initial_domain_area)])
  IN [self |-> [self EXCEPT !.simplices =
                          MaskSelect(self.simplices,
                                     [i \in DOMAIN bReplace |-> ~bReplace[i]]) \o kept],
      kind |-> "ok", value |-> Len(kept)]

\* __add_new_simplices: drop degenerate new triangles, assert the others are
\* counter-clockwise, delete the Delaunay structure and merge
add_new_simplices(self, new_simplices, bReplace) ==
  LET area == get_area_in_domain(self.domain, new_simplices)
      degenerated == [k \in DOMAIN area |-> RelBelowTol(area[k], self.initial_domain_area)]
      kept == MaskSelect(new_simplices, [k \in DOMAIN area |-> ~degenerated[k]])
  IN IF \E k \in DOMAIN area : ~degenerated[k] /\ ~(area[k] > 0)
     THEN [self |-> self, kind |-> "AssertionError", value |-> None]
     ELSE [self |-> [self EXCEPT !.tri = NoTri,
                       !.simplices =
                          MaskSelect(self.simplices,
                                     [i \in DOMAIN bReplace |-> ~bReplace[i]]) \o kept],
           kind |-> "ok", value |-> Len(kept)]


\* the five triangles of broken triangle t, in the order of np.hstack((t1,..,t5)):
\* block j (0..4) holds triangle j of every broken triangle
FiveTriangles(j, C, A, B, p1, p2, p3, p4) ==
  CASE j = 0 -> <<C, p1, p2>>
    [] j = 1 -> <<p1, p3, p2>>
    [] j = 2 -> <<p2, p3, p4>>
    [] j = 3 -> <<p4, p3, A>>
    [] OTHER -> <<p4, A, B>>

\* no marked triangle is taken out
BrokenKept_NoExclusion(self, is_broken) == is_broken

\* broken after the triangles with only invalid vertices were taken out
BrokenKept(self, is_broken) ==
  LET simps == MaskSelect(self.simplices, is_broken)
      bInvalidVertex == [t \in DOMAIN simps |->
                           [j \in 1..3 |-> InvalidPoint(self.image[simps[t][j]])]]
  IN IF \E t \in DOMAIN simps : \E j \in 1..3 : bInvalidVertex[t][j]
     THEN MaskAssign(is_broken,
                     [t \in DOMAIN simps |-> ~(\A j \in 1..3 : bInvalidVertex[t][j])])
     ELSE is_broken

\* indC = min_edge - 1, min_edge the shortest of |v1-v0|, |v2-v1|, |v0-v2| in image
IndCBroken(self, simps) ==
  [t \in DOMAIN simps |->
     NpArgMin(<<LenSq(self.image[simps[t][1]], self.image[simps[t][2]]),
                LenSq(self.image[simps[t][2]], self.image[simps[t][3]]),
                LenSq(self.image[simps[t][3]], self.image[simps[t][1]])>>) - 1]

\* without the return for nTriangles==0: an empty subdivision is merged
refine_broken_triangles_NoEarlyReturn(self, is_broken, nDivide) ==
  LET br == BrokenKept(self, is_broken)
      simps == MaskSelect(self.simplices, br)
      nTriangles == Count(br)
      nPointsOrigMesh == Len(self.image)
      r == resample_edges_of_triangle(self, simps, IndCBroken(self, simps), nDivide)
      largest_segments ==
        [e \in 0..1, t \in 1..nTriangles |->
           NpArgMax([k \in 1..(nDivide-1) |->
                       LenSq(r.image_points[k-1, e, t], r.image_points[k, e, t])])]
      \* row i (1-based) of new_*_points.reshape(-1,2): (iDistance, iEdge, iTriangle)
      iDist(i) == (i - 1) \div (2 * nTriangles)
      iEdge(i) == ((i - 1) % (2 * nTriangles)) \div nTriangles
      iTri(i) == ((i - 1) % nTriangles) + 1
      sel(i) == <<largest_segments[iEdge(i), iTri(i)] + iDist(i), iEdge(i), iTri(i)>>
      new_domain_points == [i \in 1..(4 * nTriangles) |-> r.domain_points[sel(i)]]
      new_image_points == [i \in 1..(4 * nTriangles) |-> r.image_points[sel(i)]]
      grown == [self EXCEPT !.image = vstack(self.image, new_image_points),
                            !.domain = vstack(self.domain, new_domain_points)]
      \* np.arange(4*nTriangles).reshape(2,2,nTriangles) + nPointsOrigMesh
      p(d, e, t) == nPointsOrigMesh + d * 2 * nTriangles + e * nTriangles + t
      new_simplices ==
        [i \in 1..(5 * nTriangles) |->
           LET j == (i - 1) \div nTriangles
               t == ((i - 1) % nTriangles) + 1
           IN FiveTriangles(j, r.C[t], r.A[t], r.B[t],
                            p(0, 0, t), p(0, 1, t), p(1, 0, t), p(1, 1, t))]
      old == SumAbsArea(grown.domain, simps)
      new == SumAbsArea(grown.domain, new_simplices)
      merged == add_new_simplices(grown, new_simplices, br)
  IN IF ~RelBelowTol(old - new, old)
     THEN [self |-> grown,
           ret |-> Outcome("refine_broken_triangles", "AssertionError", None, br,
                           new_simplices)]
     ELSE [self |-> merged.self,
           ret |-> Outcome("refine_broken_triangles", merged.kind, merged.value, br,
                           new_simplices)]

\* refine_broken_triangles(is_broken, nDivide), is_broken given as its value on
\* self.simplices; returns the object after the call and the outcome
refine_broken_triangles(self, is_broken, nDivide) ==
  LET br == BrokenKept(self, is_broken)
      simps == MaskSelect(self.simplices, br)
      nTriangles == Count(br)
      nPointsOrigMesh == Len(self.image)
      r == resample_edges_of_triangle(self, simps, IndCBroken(self, simps), nDivide)
      largest_segments ==
        [e \in 0..1, t \in 1..nTriangles |->
           NpArgMax([k \in 1..(nDivide-1) |->
                       LenSq(r.image_points[k-1, e, t], r.image_points[k, e, t])])]
      \* row i (1-based) of new_*_points.reshape(-1,2): (iDistance, iEdge, iTriangle)
      iDist(i) == (i - 1) \div (2 * nTriangles)
      iEdge(i) == ((i - 1) % (2 * nTriangles)) \div nTriangles
      iTri(i) == ((i - 1) % nTriangles) + 1
      sel(i) == <<largest_segments[iEdge(i), iTri(i)] + iDist(i), iEdge(i), iTri(i)>>
      new_domain_points == [i \in 1..(4 * nTriangles) |-> r.domain_points[sel(i)]]
      new_image_points == [i \in 1..(4 * nTriangles) |-> r.image_points[sel(i)]]
      grown == [self EXCEPT !.image = vstack(self.image, new_image_points),
                            !.domain = vstack(self.domain, new_domain_points)]
      \* np.arange(4*nTriangles).reshape(2,2,nTriangles) + nPointsOrigMesh
      p(d, e, t) == nPointsOrigMesh + d * 2 * nTriangles + e * nTriangles + t
      new_simplices ==
        [i \in 1..(5 * nTriangles) |->
           LET j == (i - 1) \div nTriangles
               t == ((i - 1) % nTriangles) + 1
           IN FiveTriangles(j, r.C[t], r.A[t], r.B[t],
                            p(0, 0, t), p(0, 1, t), p(1, 0, t), p(1, 1, t))]
      old == SumAbsArea(grown.domain, simps)
      new == SumAbsArea(grown.domain, new_simplices)
      merged == add_new_simplices(grown, new_simplices, br)
  IN IF nTriangles = 0
     THEN [self |-> self,
           ret |-> Outcome("refine_broken_triangles", "ok", 0, br, <<>>)]
     ELSE IF ~RelBelowTol(old - new, old)
     THEN [self |-> grown,
           ret |-> Outcome("refine_broken_triangles", "AssertionError", None, br,
                           new_simplices)]
     ELSE [self |-> merged.self,
           ret |-> Outcome("refine_broken_triangles", merged.kind, merged.value, br,
                           new_simplices)]

\* the call resamples lattice points only
BrokenResamplable(self, is_broken, nDivide) ==
  LET simps == MaskSelect(self.simplices, BrokenKept(self, is_broken))
  IN Resamplable(self, simps, IndCBroken(self, simps), nDivide)


\* number of invalid vertices of each triangle of simps
nInvalidVertices(img, simps) ==
  [k \in DOMAIN simps |-> Cardinality({j \in 1..3 : InvalidPoint(img[simps[k][j]])})]

\* 0-based position of the first invalid (want = TRUE) or first valid vertex
FirstVertex(img, s, want) ==
  (CHOOSE j \in 1..3 : InvalidPoint(img[s[j]]) = want
                       /\ \A i \in 1..(j-1) : InvalidPoint(img[s[i]]) # want) - 1

\* 0-based indices of the valid samples of edge e of triangle t: np.where(~ind[:,e])[0]
ValidSamples(r, e, t, nDivide) ==
  {k \in 0..(nDivide-1) : ~InvalidPoint(r.image_points[k, e, t])}

Least(S) == CHOOSE k \in S : \A j \in S : k <= j
Greatest(S) == CHOOSE k \in S : \A j \in S : k >= j

\* the first sample, valid or not
PickFirst_Sample0(S) == 0

\* the sample np.where(...)[0][0] takes: the first valid one
PickFirst(S) == Least(S)
\* the sample np.where(...)[0][-1] takes: the last valid one
PickLast(S) == Greatest(S)

\* __subdivide_triangles_with_one_invalid_vertex: appends p1, p2 per triangle
\* and returns the new simplices (p1,A,p2), (A,B,p2)
subdivide_triangles_with_one_invalid_vertex(self, bInvalid, nDivide) ==
  LET simps == MaskSelect(self.simplices, bInvalid)
      nTriangles == Len(simps)
      nPointsOrigMesh == Len(self.image)
      indC == [t \in 1..nTriangles |-> FirstVertex(self.image, simps[t], TRUE)]
      r == resample_edges_of_triangle(self, simps, indC, nDivide)
      v(e, t) == ValidSamples(r, e, t, nDivide)
      pt(i) == LET t == (i + 1) \div 2
                   e == (i + 1) % 2
               IN <<PickFirst(v(e, t)), e, t>>
      P1(t) == nPointsOrigMesh + 2 * (t - 1) + 1
      new_simplices ==
        [i \in 1..(2 * nTriangles) |->
           LET t == (i + 1) \div 2
           IN IF i % 2 = 1 THEN <<P1(t), r.A[t], P1(t) + 1>>
              ELSE <<r.A[t], r.B[t], P1(t) + 1>>]
  IN IF \E t \in 1..nTriangles : ~InvalidPoint(self.image[r.C[t]])
     THEN [self |-> self, kind |-> "AssertionError", new_simplices |-> <<>>]
     ELSE IF \E t \in 1..nTriangles : \E e \in 0..1 : v(e, t) = {}
     THEN [self |-> self, kind |-> "IndexError", new_simplices |-> <<>>]
     ELSE [self |-> [self EXCEPT
                       !.image = vstack(self.image,
                          [i \in 1..(2 * nTriangles) |-> r.image_points[pt(i)]]),
                       !.domain = vstack(self.domain,
                          [i \in 1..(2 * nTriangles) |-> r.domain_points[pt(i)]])],
           kind |-> "ok", new_simplices |-> new_simplices]

\* __subdivide_triangles_with_two_invalid_vertices: appends p1, p2 per triangle
\* and returns the new simplices (p1,p2,C)
subdivide_triangles_with_two_invalid_vertices(self, bInvalid, nDivide) ==
  LET simps == MaskSelect(self.simplices, bInvalid)
      nTriangles == Len(simps)
      nPointsOrigMesh == Len(self.image)
      indC == [t \in 1..nTriangles |-> FirstVertex(self.image, simps[t], FALSE)]
      r == resample_edges_of_triangle(self, simps, indC, nDivide)
      v(e, t) == ValidSamples(r, e, t, nDivide)
      pt(i) == LET t == (i + 1) \div 2
                   e == (i + 1) % 2
               IN <<PickLast(v(e, t)), e, t>>
      P1(t) == nPointsOrigMesh + 2 * (t - 1) + 1
      new_simplices == [t \in 1..nTriangles |-> <<P1(t), P1(t) + 1, r.C[t]>>]
  IN IF \E t \in 1..nTriangles :
          ~InvalidPoint(self.image[r.A[t]]) \/ ~InvalidPoint(self.image[r.B[t]])
     THEN [self |-> self, kind |-> "AssertionError", new_simplices |-> <<>>]
     ELSE IF \E t \in 1..nTriangles : \E e \in 0..1 : v(e, t) = {}
     THEN [self |-> self, kind |-> "IndexError", new_simplices |-> <<>>]
     ELSE [self |-> [self EXCEPT
                       !.image = vstack(self.image,
                          [i \in 1..(2 * nTriangles) |-> r.image_points[pt(i)]]),
                       !.domain = vstack(self.domain,
                          [i \in 1..(2 * nTriangles) |-> r.domain_points[pt(i)]])],
           kind |-> "ok", new_simplices |-> new_simplices]

\* no source triangle is replaced
ReplaceMask_None(ind_case1, ind_case2) ==
  [i \in DOMAIN ind_case1 |-> FALSE]

\* bReplace = np.logical_or(ind_case1, ind_case1)
ReplaceMask(ind_case1, ind_case2) ==
  [i \in DOMAIN ind_case1 |-> ind_case1[i] \/ ind_case1[i]]

\* refine_invalid_triangles(nDivide). floatIndex: whether the numpy of the build
\* lets an empty float array (np.reshape([], (-1,3))) index self.domain, or
\* raises IndexError
refine_invalid_triangles(self, nDivide, floatIndex) ==
  LET op == "refine_invalid_triangles"
      nInv == nInvalidVertices(self.image, self.simplices)
      ind_case1 == [i \in DOMAIN nInv |-> nInv[i] = 1]
      ind_case2 == [i \in DOMAIN nInv |-> nInv[i] = 2]
      any1 == \E i \in DOMAIN nInv : ind_case1[i]
      any2 == \E i \in DOMAIN nInv : ind_case2[i]
      s1 == IF any1
            THEN subdivide_triangles_with_one_invalid_vertex(self, ind_case1, nDivide)
            ELSE [self |-> self, kind |-> "ok", new_simplices |-> <<>>]
      s2 == IF any2
            THEN subdivide_triangles_with_two_invalid_vertices(s1.self, ind_case2, nDivide)
            ELSE [self |-> s1.self, kind |-> "ok", new_simplices |-> <<>>]
      new_simplices == s1.new_simplices \o s2.new_simplices
      bReplace == ReplaceMask(ind_case1, ind_case2)
      merged == add_new_simplices(s2.self, new_simplices, bReplace)
  IN IF \A i \in DOMAIN nInv : nInv[i] = 0
     THEN [self |-> self, ret |-> Outcome(op, "ok", 0, bReplace, <<>>)]
     ELSE IF s1.kind # "ok"
     THEN [self |-> s1.self, ret |-> Outcome(op, s1.kind, None, bReplace, <<>>)]
     ELSE IF s2.kind # "ok"
     THEN [self |-> s2.self, ret |-> Outcome(op, s2.kind, None, bReplace, s1.new_simplices)]
     ELSE IF ~any1 /\ ~any2 /\ ~floatIndex
     THEN [self |-> self, ret |-> Outcome(op, "IndexError", None, bReplace, <<>>)]
     ELSE [self |-> merged.self,
           ret |-> Outcome(op, merged.kind, merged.value, bReplace, new_simplices)]

\* the call resamples lattice points only
InvalidResamplable(self, nDivide) ==
  \A i \in DOMAIN self.simplices :
    LET s == self.simplices[i]
        n == Cardinality({j \in 1..3 : InvalidPoint(self.image[s[j]])})
    IN n \in {1, 2} =>
         Resamplable(self, <<s>>, <<FirstVertex(self.image, s, n = 1)>>, nDivide)


\* ------------------------------------------- scipy.spatial.Delaunay (Qhull)
RECURSIVE Gcd(_, _)
Gcd(a, b) == IF b = 0 THEN Abs(a) ELSE Gcd(b, a % Abs(b))

\* > 0 iff D lies strictly inside the circumcircle of the ccw triangle A, B, C
\* (the sign does not depend on the unit of length: the differences are divided
\* by their common divisor, which keeps the products small)
InCircle(A, B, C, D) ==
  LET g == Gcd(Gcd(Gcd(A[1] - D[1], A[2] - D[2]), Gcd(B[1] - D[1], B[2] - D[2])),
               Gcd(C[1] - D[1], C[2] - D[2]))
      u == IF g = 0 THEN 1 ELSE g
      ax == (A[1] - D[1]) \div u
      ay == (A[2] - D[2]) \div u
      bx == (B[1] - D[1]) \div u
      by == (B[2] - D[2]) \div u
      cx == (C[1] - D[1]) \div u
      cy == (C[2] - D[2]) \div u
  IN (ax * ax + ay * ay) * (bx * cy - cx * by)
     - (bx * bx + by * by) * (ax * cy - cx * ay)
     + (cx * cx + cy * cy) * (ax * by - bx * ay)

DirectedEdges(s) == {<<s[1], s[2]>>, <<s[2], s[3]>>, <<s[3], s[1]>>}

\* a finite set of index pairs as a sequence, in lexicographic order
EdgeSeq(E) ==
  LET before(e, f) == e[1] < f[1] \/ (e[1] = f[1] /\ e[2] < f[2])
  IN [k \in 1..Cardinality(E) |->
        CHOOSE e \in E : Cardinality({f \in E : before(f, e)}) = k - 1]

\* insertion of point number idx (coordinates in pts) into a Delaunay
\* triangulation: the triangles whose circumcircle holds the point are replaced
\* by the fan from the point to the boundary of their union
DelaunayInsert(pts, simps, idx) ==
  LET bad == {i \in DOMAIN simps :
                InCircle(pts[simps[i][1]], pts[simps[i][2]], pts[simps[i][3]], pts[idx]) > 0}
      badEdges == UNION {DirectedEdges(simps[i]) : i \in bad}
      boundary == {e \in badEdges : <<e[2], e[1]>> \notin badEdges}
      fan == EdgeSeq(boundary)
  IN MaskSelect(simps, [i \in DOMAIN simps |-> i \notin bad])
     \o [k \in DOMAIN fan |-> <<fan[k][1], fan[k][2], idx>>]

\* tri.add_points(new_points): points are inserted one after the other
RECURSIVE add_points(_, _, _)
add_points(pts, simps, new_points) ==
  IF Len(new_points) = 0 THEN simps
  ELSE add_points(pts \o <<Head(new_points)>>,
                  DelaunayInsert(pts \o <<Head(new_points)>>, simps, Len(pts) + 1),
                  Tail(new_points))

\* np.sum(self.domain[s],axis=0)/3 of one triangle
Centroid(dom, s) ==
  <<(dom[s[1]][1] + dom[s[2]][1] + dom[s[3]][1]) \div 3,
    (dom[s[1]][2] + dom[s[2]][2] + dom[s[3]][2]) \div 3>>

\* the centroids of the marked triangles are lattice points
CentroidsOnLattice(self, is_large) ==
  \A i \in DOMAIN self.simplices :
    is_large[i] =>
      LET s == self.simplices[i]
      IN /\ (self.domain[s[1]][1] + self.domain[s[2]][1] + self.domain[s[3]][1]) % 3 = 0
         /\ (self.domain[s[1]][2] + self.domain[s[2]][2] + self.domain[s[3]][2]) % 3 = 0

\* the state of the Delaunay structure is looked at only after is_large was
\* evaluated and the centroids were mapped and appended
refine_large_triangles_LateCheck(self, is_large) ==
  LET marked == MaskSelect(self.simplices, is_large)
      centroids == [k \in DOMAIN marked |-> Centroid(self.domain, marked[k])]
  IN [self |-> [self EXCEPT !.image = vstack(self.image, MapPoints(self.mapping, centroids)),
                            !.domain = vstack(self.domain, centroids)],
      ret |-> Outcome("refine_large_triangles",
                      IF self.tri.alive THEN "ok" ELSE "RuntimeError",
                      None, is_large, <<>>)]

\* refine_large_triangles(is_large), is_large given as its value on
\* self.simplices; the state error is raised before is_large is called, so its
\* outcome holds no mask
refine_large_triangles(self, is_large) ==
  LET op == "refine_large_triangles"
      marked == MaskSelect(self.simplices, is_large)
      centroids == [k \in DOMAIN marked |-> Centroid(self.domain, marked[k])]
      new_domain_points ==
        MaskSelect(centroids, [k \in DOMAIN centroids |-> ~InvalidPoint(centroids[k])])
      tri2 == [alive |-> TRUE,
               simplices |-> add_points(self.domain, self.tri.simplices, new_domain_points)]
      new_image_points == MapPoints(self.mapping, new_domain_points)
  IN IF ~self.tri.alive
     THEN [self |-> self, ret |-> Outcome(op, "RuntimeError", None, <<>>, <<>>)]
     ELSE IF Count(is_large) = 0
     THEN [self |-> self, ret |-> Outcome(op, "ok", None, is_large, <<>>)]
     ELSE [self |-> [self EXCEPT !.tri = tri2,
                                 !.image = vstack(self.image, new_image_points),
                                 !.domain = vstack(self.domain, new_domain_points),
                                 !.simplices = tri2.simplices],
           ret |-> Outcome(op, "ok", Len(new_domain_points), is_large, <<>>)]

\* AdaptiveMesh.__init__(initial_domain, mapping), the triangulation Qhull builds
\* for initial_domain given as delaunay
AdaptiveMesh(initial_domain, delaunay, p) ==
  [domain |-> initial_domain,
   image |-> MapPoints(p, initial_domain),
   simplices |-> delaunay,
   tri |-> [alive |-> TRUE, simplices |-> delaunay],
   initial_domain_area |-> SumSeq(get_area_in_domain(initial_domain, delaunay)),
   mapping |-> p]

\* the corners of the square, counter-clockwise
InitialDomain == <<<<0, 0>>, <<Scale, 0>>, <<Scale, Scale>>, <<0, Scale>>>>

\* s with its vertices rotated by r places (orientation is kept)
Rot(s, r) == [j \in 1..3 |-> s[((j - 1 + r) % 3) + 1]]

\* the Delaunay triangulations of the square: either diagonal (the corners are
\* cocircular), each triangle counter-clockwise from any of its vertices
InitialTriangulations ==
  {<<Rot(<<1, 2, 3>>, r), Rot(<<1, 3, 4>>, r)>> : r \in 0..2}
  \cup {<<Rot(<<2, 3, 4>>, r), Rot(<<1, 2, 4>>, r)>> : r \in 0..2}


\* ------------------------------------------------ calls on one AdaptiveMesh
\* the masks an is_large / is_broken predicate can return on n triangles
Masks(n) ==
  {[i \in 1..n |-> i \in S] : S \in {T \in SUBSET (1..n) : Cardinality(T) <= MaxMarked}}

\* the values of nDivide the calls are given
NDivides == {2, NDivide}

\* the values of lthresh get_broken_triangles is given (None: omitted)
LThresholds == {None, Scale + Scale \div 4, Shift}

SetSelf(m) ==
  /\ domain' = m.domain
  /\ image' = m.image
  /\ simplices' = m.simplices
  /\ tri' = m.tri
  /\ initial_domain_area' = m.initial_domain_area
  /\ mapping' = m.mapping

NoCall == Outcome("__init__", "ok", None, <<>>, <<>>)

IdleDriver ==
  /\ transmission = [parameters |-> <<>>, weights |-> <<>>, detectors |-> <<>>,
                     lthresh |-> None, Athresh |-> 0, triangulation |-> <<>>]
  /\ pc = "idle"
  /\ ip = 0
  /\ nNew = None
  /\ broken = <<>>
  /\ idet = 0
  /\ adds = <<>>

Init ==
  /\ \E p \in Parameters : \E t \in InitialTriangulations :
       \E m \in {AdaptiveMesh(InitialDomain, t, p)} :
          /\ domain = m.domain
          /\ image = m.image
          /\ simplices = m.simplices
          /\ tri = m.tri
          /\ initial_domain_area = m.initial_domain_area
          /\ mapping = m.mapping
  /\ ret = NoCall
  /\ ncalls = 0
  /\ IdleDriver

GetBrokenTriangles ==
  \E lthresh \in LThresholds :
    /\ ret' = [Outcome("get_broken_triangles", "ok", None,
                       get_broken_triangles(image, simplices, lthresh), <<>>)
                 EXCEPT !.arg = lthresh]
    /\ UNCHANGED <<meshVars, ncalls, driverVars>>

RefineLargeTriangles ==
  \E is_large \in Masks(Len(simplices)) :
    /\ Len(domain) <= MaxPoints
    /\ ncalls < MaxCalls
    /\ ~tri.alive \/ CentroidsOnLattice(Self, is_large)
    /\ \E r \in {refine_large_triangles(Self, is_large)} :
         /\ SetSelf(r.self)
         /\ ret' = r.ret
         /\ ncalls' = IF r.ret.kind = "RuntimeError" THEN ncalls ELSE ncalls + 1
    /\ UNCHANGED driverVars

RefineBrokenTriangles ==
  \E is_broken \in Masks(Len(simplices)) : \E nDivide \in NDivides :
    /\ Len(domain) <= MaxPoints
    /\ ncalls < MaxCalls
    /\ ncalls' = ncalls + 1
    /\ BrokenResamplable(Self, is_broken, nDivide)
    /\ \E r \in {refine_broken_triangles(Self, is_broken, nDivide)} :
         SetSelf(r.self) /\ ret' = [r.ret EXCEPT !.arg = nDivide]
    /\ UNCHANGED driverVars

RefineInvalidTriangles ==
  \E nDivide \in NDivides : \E floatIndex \in BOOLEAN :
    /\ Len(domain) <= MaxPoints
    /\ ncalls < MaxCalls
    /\ ncalls' = ncalls + 1
    /\ InvalidResamplable(Self, nDivide)
    /\ \E r \in {refine_invalid_triangles(Self, nDivide, floatIndex)} :
         SetSelf(r.self) /\ ret' = [r.ret EXCEPT !.arg = nDivide]
    /\ UNCHANGED driverVars

Next ==
  \/ GetBrokenTriangles
  \/ RefineLargeTriangles
  \/ RefineBrokenTriangles
  \/ RefineInvalidTriangles

Spec == Init /\ [][Next]_vars


\* ------------------------------------- Transmission.total_transmission
\* smallest Athresh (half units) the lattice resolves: a triangle made by Depth
\* nested subdivisions has at most this area, and only larger ones are refined
AthreshFloor == 9 * Pow(NDivide - 1, Depth) * Pow(NDivide - 2, Depth)

\* the raytrace parameters the driver is run with
DriverParameters ==
  {[cut |-> Nowhere, nan |-> Nowhere],
   [cut |-> Region(1, Scale \div 2 + 1, NoRegion), nan |-> Nowhere],
   [cut |-> Nowhere, nan |-> Region(3, Scale + 1, NoRegion)],
   [cut |-> Nowhere, nan |-> Region(3, 1, NoRegion)],
   [cut |-> Region(2, Scale \div 2 + 1, NoRegion), nan |-> Region(1, Scale \div 2 + 1, NoRegion)],
   [cut |-> Nowhere, nan |-> Region(1, -1, NoRegion)]}

\* the detectors of the run, one of each Detector class of transmission.py
Detectors == <<"CheckTriangulationDetector", "RectImageDetector", "PolarImageDetector">>

\* Transmission.__init__ and the arguments of total_transmission
Transmission(parameters, weights, lthresh, Athresh, triangulation) ==
  [parameters |-> parameters, weights |-> weights, detectors |-> Detectors,
   lthresh |-> lthresh, Athresh |-> Athresh, triangulation |-> triangulation]

\* is_broken of total_transmission with the area filter left out
is_broken_NoAreaFilter(self, T) ==
  get_broken_triangles(self.image, self.simplices, T.lthresh)

\* the local function is_broken of total_transmission, on Mesh.simplices:
\* broken triangles whose domain area exceeds Athresh
is_broken(self, T) ==
  LET brk == get_broken_triangles(self.image, self.simplices, T.lthresh)
      area_broken == get_area_in_domain(self.domain, MaskSelect(self.simplices, brk))
  IN MaskAssign(brk, [k \in DOMAIN area_broken |-> area_broken[k] > T.Athresh])

\* the weight handed to the detectors for parameter ip: the first one for all
DetectorWeight_First(T, i) == T.weights[1]

\* the weight handed to the detectors for parameter ip: self.weights[ip]
DetectorWeight(T, i) == T.weights[i + 1]

\* the mesh variables before the first Mesh is constructed
NoMesh ==
  /\ domain = <<>>
  /\ image = <<>>
  /\ simplices = <<>>
  /\ tri = NoTri
  /\ initial_domain_area = 0
  /\ mapping = [cut |-> Nowhere, nan |-> Nowhere]

DriverInit ==
  /\ \E ps \in [1..NParams -> DriverParameters] :
     \E ws \in {[i \in 1..NParams |-> 1], [i \in 1..NParams |-> i]} :
     \E lthresh \in {Scale + Scale \div 4, Shift} :
     \E Athresh \in {AthreshFloor, Scale * Scale - 1} :
     \E t \in {<<<<1, 2, 3>>, <<1, 3, 4>>>>, <<<<4, 2, 3>>, <<4, 1, 2>>>>} :
       transmission = Transmission(ps, ws, lthresh, Athresh, t)
  /\ pc = "construct"
  /\ ip = 0
  /\ nNew = None
  /\ broken = <<>>
  /\ idet = 0
  /\ adds = <<>>
  /\ NoMesh
  /\ ret = NoCall
  /\ ncalls = 0

\* the mask total_transmission hands to the detectors, with the area filter of
\* is_broken applied
skip_mask_AreaFilter(self, T) == is_broken(self, T)

\* broken = Mesh.get_broken_triangles(lthresh=lthresh): the mask handed to the
\* detectors as skip
skip_mask(self, T) == get_broken_triangles(self.image, self.simplices, T.lthresh)

\* the triangles an image detector accumulates, with skip ignored
accumulated_All(det, self, skip) == IF det = "CheckTriangulationDetector" THEN {} ELSE DOMAIN self.simplices

\* the triangles (1-based) whose density RectImageDetector.add and
\* PolarImageDetector.add put on self.intensity: for s in np.where(~skip)[0];
\* CheckTriangulationDetector.add accumulates nothing
accumulated(det, self, skip) ==
  IF det = "CheckTriangulationDetector" THEN {}
  ELSE {s \in DOMAIN skip : ~skip[s]}

\* the assertion of CheckTriangulationDetector.add: every triangle of the mesh
\* is counter-clockwise in the domain
AllCounterClockwise(self) ==
  LET area == get_area_in_domain(self.domain, self.simplices)
  IN \A k \in DOMAIN area : area[k] > 0

\* Mesh=AdaptiveMesh(self.mesh_points, mapping) for parameter ip
Construct ==
  /\ pc = "construct"
  /\ \E Mesh \in {AdaptiveMesh(InitialDomain, transmission.triangulation,
                               transmission.parameters[ip + 1])} :
       SetSelf(Mesh)
  /\ ret' = NoCall
  /\ ncalls' = 0
  /\ pc' = "refine"
  /\ UNCHANGED <<transmission, ip, nNew, broken, idet, adds>>

\* one pass of the while loop: nNew = Mesh.refine_broken_triangles(is_broken, ...)
RefinePass ==
  /\ pc = "refine"
  /\ BrokenResamplable(Self, is_broken(Self, transmission), NDivide)
  /\ \E r \in {refine_broken_triangles(Self, is_broken(Self, transmission), NDivide)} :
        /\ SetSelf(r.self)
        /\ ret' = [r.ret EXCEPT !.arg = NDivide]
        /\ nNew' = r.ret.value
        /\ pc' = IF r.ret.kind # "ok" THEN "raised"
                 ELSE IF r.ret.value = 0 THEN "classify" ELSE "refine"
  /\ ncalls' = ncalls + 1
  /\ UNCHANGED <<transmission, ip, broken, idet, adds>>

\* broken = Mesh.get_broken_triangles(lthresh=lthresh)
Classify ==
  /\ pc = "classify"
  /\ broken' = skip_mask(Self, transmission)
  /\ idet' = 0
  /\ pc' = "add"
  /\ UNCHANGED <<meshVars, ret, ncalls, transmission, ip, nNew, adds>>

\* d.add(Mesh, skip=broken, weight=self.weights[ip]) for the next detector d;
\* after the last detector the loop goes on to the next parameter
DetectorAdd ==
  /\ pc = "add"
  /\ \E det \in {transmission.detectors[idet + 1]} :
     \E last \in {idet + 1 = Len(transmission.detectors)} :
     \E asserted \in {AllCounterClockwise(Self)} :
       IF det = "CheckTriangulationDetector" /\ ~asserted
       THEN /\ pc' = "raised"
            /\ UNCHANGED <<adds, idet, ip>>
       ELSE /\ adds' = Append(adds, [ip |-> ip, detector |-> det,
                                      weight |-> DetectorWeight(transmission, ip),
                                      skip |-> broken, mesh |-> Self, nNew |-> nNew,
                                      accumulated |-> accumulated(det, Self, broken)])
            /\ idet' = IF last THEN 0 ELSE idet + 1
            /\ ip' = IF last THEN ip + 1 ELSE ip
            /\ pc' = IF ~last THEN "add"
                     ELSE IF ip + 1 = Len(transmission.parameters) THEN "done"
                     ELSE "construct"
  /\ UNCHANGED <<meshVars, ret, ncalls, transmission, nNew, broken>>

DriverNext ==
  \/ Construct
  \/ RefinePass
  \/ Classify
  \/ DetectorAdd

\* where total_transmission stands: every step of DriverNext changes it
Position == <<pc, ncalls, idet>>

\* total_transmission has neither returned nor raised and moves on.  Every
\* statement of the loops can be executed in every state it is reached in
\* (RefinePass is the only action with a guard besides pc, and the guard holds
\* whenever pc = "refine"), so Advance is enabled exactly when DriverNext is.
Advance ==
  /\ pc \notin {"done", "raised"}
  /\ pc' \in {"construct", "refine", "classify", "add", "done", "raised"}
  /\ ncalls' \in {0, ncalls + 1}
  /\ idet' \in 0..Len(Detectors)

\* total_transmission is sequential code: it executes its next statement until
\* it returns or raises
DriverSpec == DriverInit /\ [][DriverNext]_vars /\ WF_Position(Advance)

\* ------------------------------------------------------------------ claims
\* the j-th (0..4) triangle of the subdivision of broken triangle t, as
\* new_simplices[t::nTriangles] lists it
SubTriangle(new, nTriangles, t, j) == new[j * nTriangles + t]

AbsArea(dom, s) == Abs(Area2(dom[s[1]], dom[s[2]], dom[s[3]]))

\* C1: a successful refine_broken_triangles call leaves the total unsigned
\* domain area of simplices unchanged (so it stays initial_domain_area when it
\* was), and the five triangles that replace a subdivided triangle have together
\* exactly the area of that triangle.
C1_BrokenRefinementConservesArea ==
  [][(ret'.op = "refine_broken_triangles" /\ ret'.kind = "ok") =>
       LET src == MaskSelect(simplices, ret'.mask)
           nTriangles == Len(src)
       IN /\ SumAbsArea(domain', simplices') = SumAbsArea(domain, simplices)
          /\ initial_domain_area' = initial_domain_area
          /\ \A t \in 1..nTriangles :
               SumSeq([j \in 1..5 |->
                         AbsArea(domain', SubTriangle(ret'.new, nTriangles, t, j - 1))])
                 = AbsArea(domain, src[t])]_vars

\* a call that split a triangle into five triangles of positive area, on a mesh
\* whose total area is still the initial one
C1_Witness ==
  /\ ret.op = "refine_broken_triangles"
  /\ ret.kind = "ok"
  /\ ret.value >= 5
  /\ \E k \in DOMAIN ret.new : AbsArea(domain, ret.new[k]) = 0
  /\ \A i \in DOMAIN simplices : Area2(domain[simplices[i][1]], domain[simplices[i][2]], domain[simplices[i][3]]) > 0
  /\ SumAbsArea(domain, simplices) = initial_domain_area


\* number of triangles with exactly n invalid vertices
NumCase(img, simps, n) ==
  Cardinality({i \in DOMAIN simps : nInvalidVertices(img, simps)[i] = n})

\* the triangles with exactly n invalid vertices, in order
CaseTriangles(img, simps, n) ==
  MaskSelect(simps, [i \in DOMAIN simps |-> nInvalidVertices(img, simps)[i] = n])

\* total unsigned area of the triangles that replace the t-th triangle with one
\* invalid vertex: rows 2t-1 and 2t of new_simplices
ReplacementArea1(dom, new, t) == AbsArea(dom, new[2 * t - 1]) + AbsArea(dom, new[2 * t])

\* unsigned area of the triangle that replaces the t-th triangle with two invalid
\* vertices: row t after the n1 pairs of the first case
ReplacementArea2(dom, new, n1, t) == AbsArea(dom, new[2 * n1 + t])

\* C2 as stated: the triangles that replace a triangle with one or two undefined
\* vertices have together the area of that triangle, or else the call fails
\* without updating simplices.
C2_Original ==
  [][(ret'.op = "refine_invalid_triangles"
      /\ NumCase(image, simplices, 1) + NumCase(image, simplices, 2) > 0) =>
       \/ ret'.kind # "ok" /\ simplices' = simplices
       \/ /\ ret'.kind = "ok"
          /\ \A t \in 1..NumCase(image, simplices, 1) :
               ReplacementArea1(domain', ret'.new, t)
                 = AbsArea(domain, CaseTriangles(image, simplices, 1)[t])
          /\ \A t \in 1..NumCase(image, simplices, 2) :
               ReplacementArea2(domain', ret'.new, NumCase(image, simplices, 1), t)
                 = AbsArea(domain, CaseTriangles(image, simplices, 2)[t])]_vars

\* C2 (amended): the triangles that replace a triangle with one or two undefined
\* vertices have together strictly less area than that triangle, and the call
\* checks no area: it returns normally and carries out the merge (the Delaunay
\* structure is deleted, the non-degenerate new triangles are appended).
C2_InvalidRefinementShrinksArea ==
  [][(ret'.op = "refine_invalid_triangles"
      /\ NumCase(image, simplices, 1) + NumCase(image, simplices, 2) > 0) =>
       LET n1 == NumCase(image, simplices, 1)
           n2 == NumCase(image, simplices, 2)
       IN /\ ret'.kind = "ok"
          /\ ~tri'.alive
          /\ Len(ret'.new) = 2 * n1 + n2
          /\ \A k \in DOMAIN ret'.new :
               AbsArea(domain', ret'.new[k]) > 0 =>
                 \E i \in DOMAIN simplices' : simplices'[i] = ret'.new[k]
          /\ \A t \in 1..n1 :
               ReplacementArea1(domain', ret'.new, t)
                 < AbsArea(domain, CaseTriangles(image, simplices, 1)[t])
          /\ \A t \in 1..n2 :
               ReplacementArea2(domain', ret'.new, n1, t)
                 < AbsArea(domain, CaseTriangles(image, simplices, 2)[t])]_vars

\* a call that subdivided a triangle of each kind and changed the total area
C2_Witness ==
  /\ ret.op = "refine_invalid_triangles"
  /\ ret.kind = "ok"
  /\ Len(ret.new) = 3
  /\ ret.value = 3
  /\ SumAbsArea(domain, simplices) # initial_domain_area

\* C3: once a refine_broken_triangles or refine_invalid_triangles call has
\* replaced triangles the Delaunay structure is gone, no call brings it back,
\* and every refine_large_triangles call made without it raises the state
\* error and leaves the mesh as it is.
C3_DelaunayInvalidationPermanent ==
  [][/\ (~tri.alive => ~tri'.alive)
     /\ (ret'.op \in {"refine_broken_triangles", "refine_invalid_triangles"}
         /\ simplices' # simplices => ~tri'.alive)
     /\ (ret'.op = "refine_large_triangles" /\ ~tri.alive =>
           ret'.kind = "RuntimeError" /\ UNCHANGED meshVars)]_vars

\* refine_large_triangles raised the state error on a mesh that an earlier
\* refine_broken_triangles call had subdivided
C3_Witness ==
  /\ ret.op = "refine_large_triangles"
  /\ ret.kind = "RuntimeError"
  /\ ~tri.alive
  /\ Len(domain) > Len(InitialDomain)

\* C4 as stated: after any call of refine_broken_triangles the Delaunay
\* structure is gone.
C4_Original == ret.op = "refine_broken_triangles" => ~tri.alive

\* the triangle has an invalid vertex
HasInvalidVertex(img, s) == \E j \in 1..3 : InvalidPoint(img[s[j]])

\* C5: get_broken_triangles marks every triangle with an invalid vertex as
\* broken, for every lthresh and for the default one.
C5_InvalidVertexIsBroken ==
  ret.op = "get_broken_triangles" =>
    \A i \in DOMAIN simplices : HasInvalidVertex(image, simplices[i]) => ret.mask[i]

\* with an explicit lthresh, a triangle whose only invalid vertex is its last
\* one and whose edge v0-v1 is shorter than lthresh is marked broken
C5_Witness ==
  /\ ret.op = "get_broken_triangles"
  /\ ret.arg # None
  /\ \E i \in DOMAIN simplices :
       /\ ~InvalidPoint(image[simplices[i][1]])
       /\ ~InvalidPoint(image[simplices[i][2]])
       /\ InvalidPoint(image[simplices[i][3]])
       /\ LenSq(image[simplices[i][1]], image[simplices[i][2]]) < ret.arg * ret.arg
       /\ ret.mask[i]

\* the longest of the three image-space edges, squared
LongestEdgeSq(img, s) ==
  NpMax(<<LenSq(img[s[1]], img[s[2]]), LenSq(img[s[2]], img[s[3]]),
          LenSq(img[s[3]], img[s[1]])>>)

\* C6 as stated: with an explicit lthresh a triangle without invalid vertex is
\* broken iff the longest of its three edges is at least lthresh long.
C6_Original ==
  (ret.op = "get_broken_triangles" /\ ret.arg # None) =>
    \A i \in DOMAIN simplices :
      ~HasInvalidVertex(image, simplices[i]) =>
        (ret.mask[i] <=> LongestEdgeSq(image, simplices[i]) >= ret.arg * ret.arg)

\* C7: domain and image have the same length, and a step never shortens them
\* nor changes a row they already have.
C7_PointsAppendOnly ==
  /\ [](Len(domain) = Len(image))
  /\ [][/\ Len(domain') >= Len(domain)
        /\ \A i \in 1..Len(domain) : domain'[i] = domain[i] /\ image'[i] = image[i]]_vars

\* points were appended by two refinement calls of different kinds
C7_Witness ==
  /\ ncalls = 2
  /\ ret.op = "refine_invalid_triangles"
  /\ ret.kind = "ok"
  /\ Len(domain) > Len(InitialDomain) + 4
  /\ Len(domain) = Len(image)

\* C8: every triangle of simplices is counter-clockwise in the domain.
C8_TrianglesCounterClockwise ==
  \A i \in DOMAIN simplices :
    Area2(domain[simplices[i][1]], domain[simplices[i][2]], domain[simplices[i][3]]) > 0

\* a refinement dropped degenerate triangles and merged the others, after an
\* earlier refinement of the same mesh
C8_Witness ==
  /\ ret.op \in {"refine_broken_triangles", "refine_invalid_triangles"}
  /\ ret.kind = "ok"
  /\ ncalls = 2
  /\ ret.value > 0
  /\ ret.value < Len(ret.new)
  /\ Len(simplices) > 6

\* the mask of the triangles the pass flags, and their domain areas
Flagged == is_broken(Self, transmission)

FlaggedArea == get_area_in_domain(domain, simplices)

\* a pass of the loop: what it does to the flagged triangles that have a defined
\* vertex (ret'.mask): each is taken out of simplices and the triangles put in
\* its place are strictly smaller in the domain
PassShrinks ==
  LET src == MaskSelect(simplices, ret'.mask)
      nTriangles == Len(src)
  IN /\ \A s \in DOMAIN simplices : Flagged[s] => FlaggedArea[s] > transmission.Athresh
     /\ \A t \in 1..nTriangles :
          /\ src[t] \notin Range(simplices')
          /\ \A j \in 0..4 :
               AbsArea(domain', SubTriangle(ret'.new, nTriangles, t, j))
                 < AbsArea(domain, src[t])

\* C9 as stated: every pass replaces every flagged triangle by strictly smaller
\* triangles, no triangle of area <= Athresh is flagged, and the loop is left
\* by a pass that returns 0.
C9_Original ==
  /\ [][pc = "refine" =>
          /\ PassShrinks
          /\ \A s \in DOMAIN simplices :
               Flagged[s] => simplices[s] \notin Range(simplices')]_vars
  /\ [](pc = "refine" => BrokenResamplable(Self, Flagged, NDivide))
  /\ (pc = "refine") ~> (pc = "classify" /\ nNew = 0)

\* C9: the refinement loop of total_transmission terminates for every mapping:
\* every pass replaces every flagged triangle that has a defined vertex by
\* triangles of strictly smaller domain area, a flagged triangle whose three
\* vertices are undefined stays in simplices and is not subdivided, no triangle
\* of area <= Athresh is flagged, and the loop is left by a pass that returns 0.
C9_RefinementLoopTerminates ==
  /\ [][pc = "refine" =>
          /\ PassShrinks
          /\ \A s \in DOMAIN simplices :
               Flagged[s] =>
                 IF nInvalidVertices(image, simplices)[s] = 3
                 THEN simplices[s] \in Range(simplices')
                 ELSE simplices[s] \notin Range(simplices')]_vars
  /\ [](pc = "refine" => BrokenResamplable(Self, Flagged, NDivide))
  /\ (pc = "refine") ~> (pc = "classify" /\ nNew = 0)

\* the loop was left after two refining passes, with a triangle of three
\* undefined vertices still flagged
C9_Witness ==
  /\ pc = "classify"
  /\ nNew = 0
  /\ ncalls >= 3
  /\ Len(simplices) > 2
  /\ \E s \in DOMAIN simplices :
       Flagged[s] /\ nInvalidVertices(image, simplices)[s] = 3

\* the adds total_transmission has made when it is at parameter i, detector k
ExpectedAdds(i, k) == i * Len(transmission.detectors) + k

\* C10: for each parameter, in order, every detector's add is called exactly
\* once, in list order, with weights[ip] and the mesh of that parameter, only
\* after a pass of the loop returned 0; a mesh handed to a detector is not
\* refined afterwards; the run ends with all adds made.
C10_DetectorsAddOncePerParameter ==
  /\ [](/\ pc # "raised"
        /\ Len(adds) = ExpectedAdds(ip, IF pc = "add" THEN idet ELSE 0)
        /\ \A k \in DOMAIN adds :
             LET a == adds[k]
                 n == Len(transmission.detectors)
             IN /\ a.ip = (k - 1) \div n
                /\ a.detector = transmission.detectors[((k - 1) % n) + 1]
                /\ a.weight = transmission.weights[a.ip + 1]
                /\ a.mesh.mapping = transmission.parameters[a.ip + 1]
                /\ a.nNew = 0
                /\ a.skip = get_broken_triangles(a.mesh.image, a.mesh.simplices,
                                                 transmission.lthresh)
                /\ \A l \in DOMAIN adds : adds[l].ip = a.ip => adds[l].mesh = a.mesh
                /\ (a.ip = ip /\ pc = "add") => a.mesh = Self)
  /\ <>(pc = "done" /\ Len(adds) = NParams * Len(transmission.detectors))

\* the run is over: the detectors were handed the refined mesh of the second
\* parameter, with a weight other than the first parameter's
C10_Witness ==
  /\ pc = "done"
  /\ Len(adds) = NParams * Len(transmission.detectors)
  /\ adds[Len(adds)].weight # adds[1].weight
  /\ Len(adds[Len(adds)].mesh.simplices) > 2
  /\ adds[Len(adds)].mesh.mapping # adds[1].mesh.mapping

\* the triangle s of image img has a defined vertex on each end of both edges
\* get_broken_triangles measures, and one of them is at least l long
LongExaminedEdge(img, s, l) ==
  /\ ~HasInvalidVertex(img, s)
  /\ \/ LenSq(img[s[1]], img[s[2]]) >= l * l
     \/ LenSq(img[s[2]], img[s[3]]) >= l * l

\* C11: the skip mask handed to a detector has one entry per triangle of the
\* final simplices and is true exactly for the triangles classified broken with
\* the caller's lthresh, whatever their area; every triangle with an undefined
\* vertex is skipped; the image detectors accumulate exactly the triangles that
\* are not skipped, all of which have three defined vertices.
C11_SkipMaskIsFinalClassification ==
  \A k \in DOMAIN adds :
    LET a == adds[k]
        img == a.mesh.image
        simps == a.mesh.simplices
    IN /\ DOMAIN a.skip = DOMAIN simps
       /\ \A s \in DOMAIN simps :
            /\ a.skip[s] <=> (HasInvalidVertex(img, simps[s])
                              \/ LongExaminedEdge(img, simps[s], transmission.lthresh))
            /\ HasInvalidVertex(img, simps[s]) => a.skip[s]
       /\ a.detector \in {"RectImageDetector", "PolarImageDetector"} =>
            /\ a.accumulated = {s \in DOMAIN simps : ~a.skip[s]}
            /\ \A s \in a.accumulated : ~HasInvalidVertex(img, simps[s])

\* an image detector was handed a refined mesh in which a triangle with three
\* undefined vertices and a broken triangle of area <= Athresh are skipped and
\* other triangles are accumulated
C11_Witness ==
  \E k \in DOMAIN adds :
    LET a == adds[k]
        img == a.mesh.image
        simps == a.mesh.simplices
    IN /\ a.detector = "PolarImageDetector"
       /\ Len(simps) > 2
       /\ a.accumulated # {}
       /\ \E s \in DOMAIN simps :
            a.skip[s] /\ nInvalidVertices(img, simps)[s] = 3
       /\ \E s \in DOMAIN simps :
            /\ a.skip[s]
            /\ AbsArea(a.mesh.domain, simps[s]) <= transmission.Athresh

\* C12 as stated: a refine_large_triangles call on a mesh that is still
\* Delaunay returns the number of points it appended, and when is_large marks
\* no triangle it returns 0 and leaves domain, image and simplices unchanged.
C12_Original ==
  [][(ret'.op = "refine_large_triangles" /\ tri.alive) =>
       /\ ret'.kind = "ok"
       /\ ret'.value = Len(domain') - Len(domain)
       /\ Count(ret'.mask) = 0 =>
            /\ ret'.value = 0
            /\ UNCHANGED <<domain, image, simplices>>]_vars

\* C13 as stated: refine_invalid_triangles removes every triangle with exactly
\* two undefined image vertices and puts (p1,p2,C) in its place, p1 and p2 the
\* last valid samples on CA and CB, so that no triangle that had exactly two
\* undefined vertices before the call is still a triangle after it.
C13_Original ==
  [][(ret'.op = "refine_invalid_triangles" /\ ret'.kind = "ok") =>
       \A i \in DOMAIN simplices :
         nInvalidVertices(image, simplices)[i] = 2 =>
           simplices[i] \notin Range(simplices')]_vars

\* P is the first sample on the edge from C to Q, walking from C, whose image
\* is defined
FirstDefinedSample(P, C, Q, nDivide) ==
  \E k \in 0..(nDivide - 1) :
    /\ P = Lerp(C, Q, k, nDivide)
    /\ ~InvalidPoint(raytrace(mapping, P))
    /\ \A j \in 0..(k - 1) : InvalidPoint(raytrace(mapping, Lerp(C, Q, j, nDivide)))

\* C14: refine_invalid_triangles takes every triangle with exactly one undefined
\* vertex C out of simplices and builds (p1,A,p2) and (A,B,p2) for it, p1 and p2
\* the first samples with a defined image walking from C along CA and CB; two
\* points are appended per such triangle (after them two per triangle with two
\* undefined vertices), and each of the two new triangles that is not
\* degenerate becomes a triangle of the mesh.
C14_OneInvalidVertexReplaced ==
  [][(ret'.op = "refine_invalid_triangles" /\ NumCase(image, simplices, 1) > 0) =>
       LET n1 == NumCase(image, simplices, 1)
           n2 == NumCase(image, simplices, 2)
           nDivide == ret'.arg
       IN /\ ret'.kind = "ok"
          /\ Len(domain') = Len(domain) + 2 * n1 + 2 * n2
          /\ Len(ret'.new) = 2 * n1 + n2
          /\ \A t \in 1..n1 :
               LET s == CaseTriangles(image, simplices, 1)[t]
                   c == FirstVertex(image, s, TRUE)
                   C == s[c + 1]
                   A == s[((c + 1) % 3) + 1]
                   B == s[((c + 2) % 3) + 1]
                   P1 == Len(domain) + 2 * (t - 1) + 1
                   P2 == P1 + 1
               IN /\ s \notin Range(simplices')
                  /\ ret'.new[2 * t - 1] = <<P1, A, P2>>
                  /\ ret'.new[2 * t] = <<A, B, P2>>
                  /\ FirstDefinedSample(domain'[P1], domain[C], domain[A], nDivide)
                  /\ FirstDefinedSample(domain'[P2], domain[C], domain[B], nDivide)
                  /\ image'[P1] = raytrace(mapping, domain'[P1])
                  /\ image'[P2] = raytrace(mapping, domain'[P2])
                  /\ \A k \in {2 * t - 1, 2 * t} :
                       AbsArea(domain', ret'.new[k]) > 0 =>
                         Cardinality({i \in DOMAIN simplices' :
                                        simplices'[i] = ret'.new[k]}) = 1]_vars

\* a call replaced a triangle with one undefined vertex by two triangles that
\* are not degenerate, p1 being a sample strictly between C and A
C14_Witness ==
  /\ ret.op = "refine_invalid_triangles"
  /\ ret.kind = "ok"
  /\ Len(ret.new) >= 2
  /\ \E i \in DOMAIN ret.mask : ret.mask[i]
  /\ ret.new[1][2] = ret.new[2][1]
  /\ ret.new[1][3] = ret.new[2][3]
  /\ domain[ret.new[1][1]] # domain[ret.new[1][2]]
  /\ AbsArea(domain, ret.new[1]) > 0
  /\ AbsArea(domain, ret.new[2]) > 0
  /\ ret.new[1] \in Range(simplices)
  /\ ret.new[2] \in Range(simplices)

\* C15: a refine_large_triangles call on a mesh without Delaunay structure
\* raises the state error without having evaluated is_large or the mapping and
\* leaves the mesh as it is; the refine_broken_triangles or
\* refine_invalid_triangles call that follows the error does not raise it and
\* subdivides as on any mesh: four points per subdivided broken triangle, two
\* per triangle with one or two undefined vertices.
C15_StateErrorLeavesMeshUsable ==
  [][/\ (ret'.op = "refine_large_triangles" /\ ~tri.alive) =>
          /\ ret'.kind = "RuntimeError"
          /\ ret'.mask = <<>>
          /\ UNCHANGED meshVars
     /\ (ret.kind = "RuntimeError" /\ ret'.op = "refine_broken_triangles") =>
          /\ ret'.kind = "ok"
          /\ Len(domain') = Len(domain) + 4 * Count(ret'.mask)
          /\ Len(image') = Len(domain')
          /\ Count(ret'.mask) > 0 => simplices' # simplices
     /\ (ret.kind = "RuntimeError" /\ ret'.op = "refine_invalid_triangles"
         /\ NumCase(image, simplices, 1) + NumCase(image, simplices, 2) > 0) =>
          /\ ret'.kind = "ok"
          /\ Len(domain') = Len(domain) + 2 * NumCase(image, simplices, 1)
                                        + 2 * NumCase(image, simplices, 2)
          /\ Len(image') = Len(domain')
          /\ Len(ret'.new) = 2 * NumCase(image, simplices, 1)
                              + NumCase(image, simplices, 2)]_vars

\* refine_large_triangles raised the state error on a mesh that still has a
\* triangle with one or two undefined vertices, and a further call can be made
C15_Witness ==
  /\ ret.op = "refine_large_triangles"
  /\ ret.kind = "RuntimeError"
  /\ ret.mask = <<>>
  /\ ~tri.alive
  /\ ncalls < MaxCalls
  /\ Len(domain) <= MaxPoints
  /\ NumCase(image, simplices, 1) + NumCase(image, simplices, 2) > 0
  /\ \E nDivide \in NDivides : InvalidResamplable(Self, nDivide)

\* the mesh total_transmission constructs for parameter i (0-based)
InitialMesh(i) ==
  AdaptiveMesh(InitialDomain, transmission.triangulation, transmission.parameters[i + 1])

\* is_broken marks no triangle of the mesh constructed for parameter i
NothingBroken(i) == Count(is_broken(InitialMesh(i), transmission)) = 0

\* C16: when is_broken marks no triangle, the refine_broken_triangles call of
\* the pass returns 0 and leaves domain, image and simplices unchanged, and the
\* loop is left; if that is so on the constructed mesh, the loop is left after
\* its first pass and every detector is handed the constructed triangulation.
C16_NothingBrokenNoRefinement ==
  /\ [][(pc = "refine" /\ Count(Flagged) = 0) =>
          /\ ret'.op = "refine_broken_triangles"
          /\ ret'.kind = "ok"
          /\ ret'.value = 0
          /\ nNew' = 0
          /\ pc' = "classify"
          /\ UNCHANGED <<domain, image, simplices>>]_vars
  /\ []((pc \in {"classify", "add"} /\ NothingBroken(ip)) =>
          /\ ncalls = 1
          /\ domain = InitialMesh(ip).domain
          /\ image = InitialMesh(ip).image
          /\ simplices = InitialMesh(ip).simplices)
  /\ [](\A k \in DOMAIN adds :
          NothingBroken(adds[k].ip) =>
            /\ adds[k].nNew = 0
            /\ adds[k].mesh.domain = InitialMesh(adds[k].ip).domain
            /\ adds[k].mesh.image = InitialMesh(adds[k].ip).image
            /\ adds[k].mesh.simplices = InitialMesh(adds[k].ip).simplices)

\* every detector was handed the constructed triangulation of a smooth mapping
\* without undefined points, after a single pass that marked nothing
C16_Witness ==
  /\ pc = "done"
  /\ \E i \in 0..(NParams - 1) :
       /\ NothingBroken(i)
       /\ InitialMesh(i).mapping.cut = Nowhere
       /\ InitialMesh(i).mapping.nan = Nowhere
       /\ \A d \in 1..Len(Detectors) :
            \E k \in DOMAIN adds :
              /\ adds[k].ip = i
              /\ adds[k].detector = Detectors[d]
              /\ adds[k].nNew = 0
              /\ adds[k].mesh.simplices = transmission.triangulation
              /\ adds[k].mesh.domain = InitialDomain

\* the edge of triangle s opposite its vertex C is the shortest of the edges of
\* s that have a length in the image
ApexOppositeShortest(img, s, C) ==
  LET edges == {<<s[1], s[2]>>, <<s[2], s[3]>>, <<s[3], s[1]>>}
      len(e) == LenSq(img[e[1]], img[e[2]])
      opposite == CHOOSE e \in edges : C \notin {e[1], e[2]}
  IN (\E e \in edges : ~IsNaN(len(e))) =>
       /\ ~IsNaN(len(opposite))
       /\ \A e \in edges : ~IsNaN(len(e)) => len(opposite) <= len(e)

\* P and Pn are consecutive samples of the edge from C to Q, and the segment
\* between their images is the longest of the segments of the edge that have a
\* length in the image
BracketsLongest(P, Pn, C, Q, nDivide) ==
  LET seg(j) == LenSq(raytrace(mapping, Lerp(C, Q, j, nDivide)),
                      raytrace(mapping, Lerp(C, Q, j + 1, nDivide)))
  IN \E k \in 0..(nDivide - 2) :
       /\ P = Lerp(C, Q, k, nDivide)
       /\ Pn = Lerp(C, Q, k + 1, nDivide)
       /\ (\E j \in 0..(nDivide - 2) : ~IsNaN(seg(j))) =>
            /\ ~IsNaN(seg(k))
            /\ \A j \in 0..(nDivide - 2) : ~IsNaN(seg(j)) => seg(k) >= seg(j)

\* C17 as stated: a refine_broken_triangles call that subdivides n triangles
\* appends 4n points; for each subdivided triangle C is the vertex opposite its
\* shortest image edge, p1/p3 and p2/p4 are consecutive samples on C->A and
\* C->B that bracket the longest image segment of that edge, its five triangles
\* are built from its own four points and its own A, B, C; every index in
\* simplices is an index of domain and image.
C17_Original ==
  [][(ret'.op = "refine_broken_triangles" /\ ret'.kind = "ok") =>
       LET src == MaskSelect(simplices, ret'.mask)
           n == Len(src)
           nDivide == ret'.arg
           five(t, j) == SubTriangle(ret'.new, n, t, j)
           own(t) == {five(t, 0)[2], five(t, 0)[3], five(t, 1)[2], five(t, 2)[3]}
       IN /\ Len(domain') = Len(domain) + 4 * n
          /\ Len(image') = Len(image) + 4 * n
          /\ \A t \in 1..n :
               LET C == five(t, 0)[1]
                   p1 == five(t, 0)[2]
                   p2 == five(t, 0)[3]
                   p3 == five(t, 1)[2]
                   p4 == five(t, 2)[3]
                   A == five(t, 4)[2]
                   B == five(t, 4)[3]
               IN /\ {A, B, C} = Range(src[t])
                  /\ Cardinality({A, B, C}) = 3
                  /\ ApexOppositeShortest(image, src[t], C)
                  /\ own(t) \subseteq (Len(domain) + 1)..(Len(domain) + 4 * n)
                  /\ Cardinality(own(t)) = 4
                  /\ \A u \in 1..n : u # t => own(u) \cap own(t) = {}
                  /\ \A j \in 0..4 :
                       five(t, j) = FiveTriangles(j, C, A, B, p1, p2, p3, p4)
                  /\ BracketsLongest(domain'[p1], domain'[p3], domain[C], domain[A], nDivide)
                  /\ BracketsLongest(domain'[p2], domain'[p4], domain[C], domain[B], nDivide)
                  /\ \A q \in own(t) : image'[q] = raytrace(mapping, domain'[q])
          /\ \A i \in DOMAIN simplices' :
               \A j \in 1..3 : simplices'[i][j] \in 1..Len(domain')]_vars

\* the triangles the pass marks whose three image vertices are undefined, and
\* the other triangles it marks
MarkedUndefined ==
  {s \in DOMAIN simplices : Flagged[s] /\ nInvalidVertices(image, simplices)[s] = 3}

MarkedOther ==
  {s \in DOMAIN simplices : Flagged[s] /\ nInvalidVertices(image, simplices)[s] < 3}

\* C18: refine_broken_triangles leaves out the marked triangles whose three
\* image vertices are undefined: they are not subdivided and stay in simplices,
\* points are appended for the other marked triangles only, and a pass that
\* marks only such triangles returns 0 and changes nothing.
C18_AllUndefinedExcluded ==
  [][pc = "refine" =>
       /\ ret'.op = "refine_broken_triangles"
       /\ ret'.kind = "ok"
       /\ \A s \in MarkedUndefined :
            /\ ~ret'.mask[s]
            /\ simplices[s] \in Range(simplices')
       /\ \A s \in MarkedOther : ret'.mask[s]
       /\ Len(domain') = Len(domain) + 4 * Cardinality(MarkedOther)
       /\ Len(ret'.new) = 5 * Cardinality(MarkedOther)
       /\ MarkedOther = {} =>
            /\ ret'.value = 0
            /\ nNew' = 0
            /\ UNCHANGED meshVars]_vars

\* a pass subdivided a marked triangle and left a marked triangle of three
\* undefined vertices where it was
C18_Witness ==
  /\ pc = "refine"
  /\ ret.op = "refine_broken_triangles"
  /\ ret.kind = "ok"
  /\ nNew > 0
  /\ Count(ret.mask) > 0
  /\ \E s \in 1..(Len(ret.mask) - Count(ret.mask)) : s \in MarkedUndefined

\* C19: when get_broken_triangles is called without lthresh on triangles of
\* which one has an undefined image vertex, the median of max_lensq and with it
\* the default threshold is NaN, and every triangle is classified broken.
C19_DefaultThresholdUndefined ==
  (/\ ret.op = "get_broken_triangles"
   /\ ret.arg = None
   /\ \E i \in DOMAIN simplices : HasInvalidVertex(image, simplices[i])) =>
    /\ \E i \in DOMAIN simplices : IsNaN(max_lensq(image, simplices)[i])
    /\ IsNaN(LthreshSq2(None, max_lensq(image, simplices)))
    /\ Len(ret.mask) = Len(simplices)
    /\ \A i \in DOMAIN simplices : ret.mask[i]

\* called without lthresh on a mesh with an undefined vertex, the call marked
\* a triangle whose image is defined and no larger than the undistorted square
C19_Witness ==
  /\ ret.op = "get_broken_triangles"
  /\ ret.arg = None
  /\ \E i \in DOMAIN simplices : HasInvalidVertex(image, simplices[i])
  /\ \E i \in DOMAIN simplices :
       /\ ~HasInvalidVertex(image, simplices[i])
       /\ LongestEdgeSq(image, simplices[i]) <= 2 * Scale * Scale
       /\ ret.mask[i]

====
